---- MODULE Spec2Model ----
(***************************************************************************)
(* Hangman API (src/Hangman/api.py): users, game sessions, the per-guess   *)
(* transition of make_move, the move history, scores and the cached        *)
(* average of attempts remaining.                                          *)
(*                                                                         *)
(* A Python string is a sequence of one-character strings, so that         *)
(* str.upper, str.isalpha, len and indexing are computed, not assumed.     *)
(* game.history is kept as the decoded list of [guess, msg] pairs.         *)
(* Game.new_game, Game.end_game, Game.word_progress and the Game fields    *)
(* live in models.py, which is not part of the sources at hand; they are   *)
(* modelled from the specification.                                        *)
(***************************************************************************)
EXTENDS Integers, Sequences, FiniteSets, TLC

\* ---------------------------------------------------------------- bounds
MaxAttempts == 2

\* ---------------------------------------------------------------- inputs
UserNames == {"ann"}
Keys == {"g1"}

UpperLetters == {"A", "B", "X"}
LowerLetters == {"a", "b"}
OtherChars == {"1"}
Chars == UpperLetters \cup LowerLetters \cup OtherChars

\* the further letters of the words played in the replayed scenario
ScenarioLetters == {"P", "E", "R", "U"}
\* every alphabetic character of the model
Letters == UpperLetters \cup LowerLetters \cup ScenarioLetters

\* the vocabulary read from countries.csv, as stored on a Game
WORDS_LIST == { <<"A", "B">>, <<"A", "B", "A">> }

\* request.guess of MakeMoveForm
Guesses ==
    { <<c>> : c \in Chars }
    \cup WORDS_LIST
    \cup { <<>>, <<"a", "b">>, <<"A", "b">>, <<"a", "b", "a">>,
           <<"B", "A">>, <<"A", "1">>, <<"1", "1">> }

\* request.attempts of NewGameForm
AttemptsBudgets == 1..MaxAttempts

\* ---------------------------------------------------------------- helpers
Range(s) == { s[i] : i \in 1..Len(s) }

None == [none |-> TRUE]

\* str.upper() on one character
upper_char(c) ==
    CASE c = "a" -> "A"
      [] c = "b" -> "B"
      [] OTHER -> c

\* str.upper()
str_upper(s) == [ i \in 1..Len(s) |-> upper_char(s[i]) ]

isalpha_empty_ok(s) == \A i \in 1..Len(s) : s[i] \in Letters

\* str.isalpha(): at least one character and all of them alphabetic
isalpha(s) == Len(s) > 0 /\ \A i \in 1..Len(s) : s[i] \in Letters

\* exceptions and response messages
BadRequestException(text) == [type |-> "BadRequestException", text |-> text]
NotFoundException(text) == [type |-> "NotFoundException", text |-> text]
ConflictException(text) == [type |-> "ConflictException", text |-> text]
AttributeError == [type |-> "AttributeError", text |-> "'NoneType' object has no attribute 'game_over'"]
GameForm(game, msg) == [type |-> "GameForm", message |-> msg, game |-> game]
MessageForm(msg) == [type |-> "MessageForm", message |-> msg]
StringMessage(msg) == [type |-> "StringMessage", message |-> msg]

\* ---------------------------------------------------------------- Game (models.py)
\* Game.new_game(user, attempts) with the word drawn from WORDS_LIST
Game_new_game(user, attempts, word) ==
    [ user |-> user,
      target |-> word,
      guessed_letters |-> <<>>,
      attempts_remaining |-> attempts,
      game_over |-> FALSE,
      won |-> FALSE,
      history |-> <<>> ]

\* Game.word_progress(): target[i] where i is guessed, the placeholder elsewhere
word_progress(game) ==
    [ i \in 1..Len(game.target) |->
        IF (i - 1) \in Range(game.guessed_letters) THEN game.target[i] ELSE "_" ]

\* Game.end_game(won): the game record it leaves
end_game(game, won) == [game EXCEPT !.game_over = TRUE, !.won = won]

\* Game.end_game(won): the Score it stores
end_game_score(game, won) ==
    [ user |-> game.user, won |-> won, guesses |-> Len(game.history) ]

\* ---------------------------------------------------------------- make_move
updateHistory_normalised(game, guess, msg) ==
    [game EXCEPT !.history = Append(game.history, <<str_upper(guess), msg>>)]

\* updateHistory(game, guess, msg): append [guess, msg] and put the game
updateHistory(game, guess, msg) ==
    [game EXCEPT !.history = Append(game.history, <<guess, msg>>)]

is_new_match_any(guess, c, i, guessed_letters) ==
    str_upper(guess) = <<c>>

\* request.guess.upper() == c and i not in game.guessed_letters
is_new_match(guess, c, i, guessed_letters) ==
    str_upper(guess) = <<c>> /\ i \notin Range(guessed_letters)

\* the loop leaving at its first match
RECURSIVE reveal_first(_, _, _, _)
reveal_first(target, guess, guessed_letters, i) ==
    IF i >= Len(target) THEN guessed_letters
    ELSE IF is_new_match(guess, target[i + 1], i, guessed_letters)
         THEN Append(guessed_letters, i)
         ELSE reveal_first(target, guess, guessed_letters, i + 1)

\* for i, c in enumerate(game.target): ... game.guessed_letters.append(i)
\* (i is the 0-based index the code stores)
RECURSIVE reveal(_, _, _, _)
reveal(target, guess, guessed_letters, i) ==
    IF i >= Len(target) THEN guessed_letters
    ELSE IF is_new_match(guess, target[i + 1], i, guessed_letters)
         THEN reveal(target, guess, Append(guessed_letters, i), i + 1)
         ELSE reveal(target, guess, guessed_letters, i + 1)

is_single_char_or_more(guess) == Len(guess) >= 1

\* len(request.guess) == 1
is_single_char(guess) == Len(guess) = 1

all_guessed_beyond(game) == Len(game.guessed_letters) > Len(game.target)

\* len(game.guessed_letters) == len(game.target)
all_guessed(game) == Len(game.guessed_letters) = Len(game.target)

miss_decrement_none(attempts_remaining) == attempts_remaining

miss_decrement_twice(attempts_remaining) == attempts_remaining - 2

\* game.attempts_remaining -= 1
miss_decrement(attempts_remaining) == attempts_remaining - 1

out_of_attempts_early(attempts_remaining) == attempts_remaining < 2

out_of_attempts_late(attempts_remaining) == attempts_remaining < 0

\* game.attempts_remaining < 1
out_of_attempts(attempts_remaining) == attempts_remaining < 1

\* the result of one call: the game as stored afterwards, the scores it
\* stored, and whether the call returned a value or raised
Returned(game, scores, value) ==
    [game |-> game, scores |-> scores, outcome |-> "returned", value |-> value]
Raised(game, exc) ==
    [game |-> game, scores |-> <<>>, outcome |-> "raised", value |-> exc]

\* updateHistory(game, guess, msg); game.end_game(won); return game.to_form(msg)
finish(game, guess, msg, won) ==
    LET recorded == updateHistory(game, guess, msg)
        ended == end_game(recorded, won)
    IN Returned(ended, <<end_game_score(recorded, won)>>, GameForm(ended, msg))

win_by_word_as_loss(game, guess) ==
    finish(game, guess, <<"You win! Word was ">> \o game.target, FALSE)

\* the branch request.guess == game.target
win_by_word(game, guess) ==
    finish(game, guess, <<"You win! Word was ">> \o game.target, TRUE)

\* the branch len(game.guessed_letters) == len(game.target)
win_by_letters(game, guess) ==
    finish(game, guess, <<"You win! Word was ">> \o word_progress(game), TRUE)

lose_as_win(game, guess) == finish(game, guess, <<"Game over!">>, TRUE)

\* the branch game.attempts_remaining < 1
lose(game, guess) == finish(game, guess, <<"Game over!">>, FALSE)

\* the tail of make_move once the letter loop has run: game carries the new
\* guessed_letters, letterInWord tells whether the loop appended a position
after_letter(game, guess, letterInWord) ==
    IF all_guessed(game) THEN win_by_letters(game, guess)
    ELSE
        LET msg == IF letterInWord
                   THEN "Letter was in the word! Word progress: "
                   ELSE "Letter was not in the word! Word progress: "
            charged == IF letterInWord THEN game
                       ELSE [game EXCEPT !.attempts_remaining =
                                miss_decrement(game.attempts_remaining)]
        IN IF out_of_attempts(charged.attempts_remaining)
           THEN lose(charged, guess)
           ELSE LET text == <<msg>> \o word_progress(charged)
                    recorded == updateHistory(charged, guess, text)
                IN Returned(recorded, <<>>, GameForm(recorded, text))

is_over_never(game) == FALSE

\* if game.game_over
is_over(game) == game.game_over

letterInWord_any_match(target, guess, guessed_letters) ==
    \E i \in 1..Len(target) : str_upper(guess) = <<target[i]>>

\* letterInWord: set to True exactly when the letter loop appends a position
letterInWord(target, guess, guessed_letters) ==
    reveal(target, guess, guessed_letters, 0) # guessed_letters

\* HangmanApi.make_move on a game that get_by_urlsafe found
make_move_body(game, guess) ==
    IF is_over(game)
    THEN Returned(game, <<>>, BadRequestException("Game is already over!"))
    ELSE IF isalpha(guess)
    THEN IF guess = game.target
         THEN win_by_word(game, guess)
         ELSE IF is_single_char(guess)
              THEN LET guessed == reveal(game.target, guess, game.guessed_letters, 0)
                   IN after_letter([game EXCEPT !.guessed_letters = guessed],
                                   guess,
                                   letterInWord(game.target, guess,
                                                game.guessed_letters))
              ELSE Raised(game, BadRequestException(
                       "Guess must be a single character or the word!"))
    ELSE Raised(game, BadRequestException("Guess must be all letters!"))

\* ---------------------------------------------------------------- state
VARIABLES
    users,      \* names of the stored User entities
    games,      \* datastore: key -> Game, None where no Game is stored
    created,    \* keys the datastore has handed out
    scores,     \* stored Score entities, in creation order
    taskqueue,  \* pending /tasks/cache_average_attempts tasks
    memcache,   \* value under MEMCACHE_MOVES_REMAINING, None when unset
    last,       \* the latest request and its response
    budget,     \* key -> request.attempts of the new_game that made the game
    inflight    \* make_move requests in progress, each with its loaded copy

vars == <<users, games, created, scores, taskqueue, memcache, last, budget, inflight>>

Call(op, key, guess, before, outcome, value) ==
    [op |-> op, key |-> key, guess |-> guess, before |-> before,
     outcome |-> outcome, value |-> value]

\* get_by_urlsafe(urlsafe_key, Game)
get_by_urlsafe(key) == games[key]

Init ==
    /\ users = {}
    /\ games = [k \in Keys |-> None]
    /\ created = {}
    /\ scores = <<>>
    /\ taskqueue = 0
    /\ memcache = None
    /\ last = Call("none", "", <<>>, None, "returned", None)
    /\ budget = [k \in Keys |-> 0]
    /\ inflight = <<>>

\* HangmanApi.create_user
create_user ==
    \E user_name \in UserNames :
        /\ IF user_name \in users
           THEN /\ last' = Call("create_user", "", <<>>, None, "raised",
                        ConflictException("A User with that name already exists!"))
                /\ UNCHANGED users
           ELSE /\ users' = users \cup {user_name}
                /\ last' = Call("create_user", "", <<>>, None, "returned",
                        StringMessage(<<"User ", user_name, " created!">>))
        /\ UNCHANGED <<games, created, scores, taskqueue, memcache, budget, inflight>>

\* HangmanApi.new_game
new_game ==
    \E user_name \in UserNames, attempts \in AttemptsBudgets :
        IF user_name \notin users
        THEN /\ last' = Call("new_game", "", <<>>, None, "raised",
                     NotFoundException("A User with that name does not exist!"))
             /\ UNCHANGED <<users, games, created, scores, taskqueue, memcache,
                            budget, inflight>>
        ELSE \E word \in WORDS_LIST, key \in (DOMAIN games) \ created :
                LET game == Game_new_game(user_name, attempts, word) IN
                /\ games' = [games EXCEPT ![key] = game]
                /\ created' = created \cup {key}
                /\ taskqueue' = taskqueue + 1
                /\ last' = Call("new_game", key, <<>>, None, "returned",
                        GameForm(game, <<"Have fun playing Hangman!">>))
                /\ budget' = [budget EXCEPT ![key] = attempts]
                /\ UNCHANGED <<users, scores, memcache, inflight>>

key_delete_all(key) == [k \in DOMAIN games |-> None]

\* game.key.delete()
key_delete(key) == [games EXCEPT ![key] = None]

\* HangmanApi.cancel_game
cancel_game ==
    \E key \in DOMAIN games :
        LET game == get_by_urlsafe(key) IN
        /\ IF game # None
           THEN IF game.game_over
                THEN /\ last' = Call("cancel_game", key, <<>>, game, "raised",
                             BadRequestException("Game is already over."))
                     /\ UNCHANGED games
                ELSE /\ games' = key_delete(key)
                     /\ last' = Call("cancel_game", key, <<>>, game, "returned",
                             MessageForm(<<"Game deleted.">>))
           ELSE /\ last' = Call("cancel_game", key, <<>>, game, "raised",
                        NotFoundException("Game not found!"))
                /\ UNCHANGED games
        /\ UNCHANGED <<users, created, scores, taskqueue, memcache, budget, inflight>>

\* HangmanApi.make_move, the whole request served without interruption, its
\* guess drawn from guesses
make_move_with(guesses) ==
    \E key \in DOMAIN games, guess \in guesses :
        LET game == get_by_urlsafe(key) IN
        /\ IF game = None
           THEN /\ last' = Call("make_move", key, guess, game, "raised", AttributeError)
                /\ UNCHANGED <<games, scores>>
           ELSE LET r == make_move_body(game, guess) IN
                /\ games' = [games EXCEPT ![key] = r.game]
                /\ scores' = scores \o r.scores
                /\ last' = Call("make_move", key, guess, game, r.outcome, r.value)
        /\ UNCHANGED <<users, created, taskqueue, memcache, budget, inflight>>

\* HangmanApi.make_move
make_move == make_move_with(Guesses)

RECURSIVE sum_attempts(_)
sum_attempts(gs) ==
    IF gs = {} THEN 0
    ELSE LET g == CHOOSE x \in gs : TRUE
         IN games[g].attempts_remaining + sum_attempts(gs \ {g})

\* '{:.2f}'.format(float(total)/count), kept as a number of hundredths
format_2f(total, count) == (200 * total + count) \div (2 * count)

\* HangmanApi._cache_average_attempts, run by a queued task
cache_average_attempts ==
    /\ taskqueue > 0
    /\ taskqueue' = taskqueue - 1
    /\ LET active == { k \in DOMAIN games : games[k] # None /\ ~ games[k].game_over } IN
       IF active # {}
       THEN memcache' = [text |-> "The average moves remaining is ",
                         hundredths |-> format_2f(sum_attempts(active), Cardinality(active))]
       ELSE UNCHANGED memcache
    /\ last' = Call("cache_average_attempts", "", <<>>, None, "returned", None)
    /\ UNCHANGED <<users, games, created, scores, budget, inflight>>

\* HangmanApi.get_average_attempts
get_average_attempts ==
    /\ last' = Call("get_average_attempts", "", <<>>, None, "returned",
                    StringMessage(IF memcache # None THEN memcache ELSE <<>>))
    /\ UNCHANGED <<users, games, created, scores, taskqueue, memcache, budget, inflight>>

Next ==
    \/ create_user
    \/ new_game
    \/ cancel_game
    \/ make_move
    \/ cache_average_attempts
    \/ get_average_attempts

Spec == Init /\ [][Next]_vars

\* ---------------------------------------------------------------- properties
\* the latest request was a make_move on a stored game
MoveMade == last.op = "make_move" /\ last.before # None
\* ... on a game that was not over
OpenMoveMade == MoveMade /\ ~ last.before.game_over
\* the game of the latest request as it was before and as it is stored now
Before == last.before
After == games[last.key]

\* a single alphabetic letter that, case-normalised, is at no position of the target
IsMiss(guess, target) ==
    /\ Len(guess) = 1
    /\ guess[1] \in Letters
    /\ \A i \in 1..Len(target) : upper_char(guess[1]) # target[i]

\* C1: a make_move on a game that is over fails with a raised "Game is
\* already over!" error and leaves every field of the game unchanged.
C1_MoveOnOverGameIsRaised ==
    (MoveMade /\ Before.game_over) =>
        /\ last.outcome = "raised"
        /\ last.value = BadRequestException("Game is already over!")
        /\ After = Before

\* C2: on a game that is not over, whatever attempts_remaining is, a guess
\* equal to the target wins in that call with 'You win! Word was <target>'
\* and changes neither attempts_remaining nor guessed_letters.
C2_WholeWordWins ==
    (OpenMoveMade /\ last.guess = Before.target) =>
        /\ last.outcome = "returned"
        /\ last.value.type = "GameForm"
        /\ last.value.message = <<"You win! Word was ">> \o Before.target
        /\ After.game_over /\ After.won
        /\ scores # <<>> /\ scores[Len(scores)].won
        /\ After.attempts_remaining = Before.attempts_remaining
        /\ After.guessed_letters = Before.guessed_letters

C2_Witness ==
    /\ OpenMoveMade /\ last.guess = Before.target
    /\ Before.attempts_remaining = 1
    /\ Before.guessed_letters # <<>>

\* C3: on a game that is not over, a single-letter alphabetic guess matching
\* no position lowers attempts_remaining by exactly 1, leaves guessed_letters
\* unchanged and appends exactly one history entry.
C3_MissCostsOneAttempt ==
    (OpenMoveMade /\ IsMiss(last.guess, Before.target)) =>
        /\ After.attempts_remaining = Before.attempts_remaining - 1
        /\ After.guessed_letters = Before.guessed_letters
        /\ Len(After.history) = Len(Before.history) + 1

C3_Witness ==
    /\ OpenMoveMade /\ IsMiss(last.guess, Before.target)
    /\ Before.attempts_remaining = 2
    /\ ~ After.game_over

\* C4: with attempts_remaining = 1, a single-letter miss leaves 0 attempts and
\* in the same call ends the game as lost, returning and recording 'Game over!'.
C4_LastMissLoses ==
    (OpenMoveMade /\ IsMiss(last.guess, Before.target)
        /\ Before.attempts_remaining = 1) =>
        /\ After.attempts_remaining = 0
        /\ After.game_over /\ ~ After.won
        /\ scores # <<>> /\ ~ scores[Len(scores)].won
        /\ last.outcome = "returned"
        /\ last.value.type = "GameForm"
        /\ last.value.message = <<"Game over!">>
        /\ After.history = Append(Before.history, <<last.guess, <<"Game over!">>>>)

C4_Witness ==
    /\ OpenMoveMade /\ IsMiss(last.guess, Before.target)
    /\ Before.attempts_remaining = 1
    /\ Before.guessed_letters # <<>>

\* C5: guessed_letters never holds a duplicate, every entry is an index into
\* target, and so len(guessed_letters) <= len(target).
C5_GuessedLettersAreDistinctIndices ==
    \A k \in Keys : games[k] # None =>
        LET g == games[k].guessed_letters IN
        /\ \A i, j \in 1..Len(g) : g[i] = g[j] => i = j
        /\ \A i \in 1..Len(g) : g[i] \in 0..(Len(games[k].target) - 1)
        /\ Len(g) <= Len(games[k].target)

\* a letter whose positions were already recorded is guessed again
C5_Witness ==
    /\ OpenMoveMade /\ Len(last.guess) = 1
    /\ \E i \in Range(Before.guessed_letters) :
          upper_char(last.guess[1]) = Before.target[i + 1]
    /\ Len(Before.guessed_letters) = 2

\* C6: attempts_remaining of a game created with a positive budget is never
\* negative, and no make_move increases it.
C6_AttemptsNonNegativeNonIncreasing ==
    /\ \A k \in Keys : games[k] # None => games[k].attempts_remaining >= 0
    /\ MoveMade => After.attempts_remaining <= Before.attempts_remaining

C6_Witness ==
    /\ OpenMoveMade
    /\ Before.attempts_remaining = 1
    /\ After.attempts_remaining = 0

\* C7: on a game that is not over, an empty guess or one with a non-alphabetic
\* character is rejected with 'Guess must be all letters!' and the stored
\* game is left exactly as it was.
C7_NonAlphabeticGuessRejected ==
    (OpenMoveMade /\ (last.guess = <<>> \/
                      \E i \in 1..Len(last.guess) : last.guess[i] \in OtherChars)) =>
        /\ last.outcome = "raised"
        /\ last.value = BadRequestException("Guess must be all letters!")
        /\ After = Before

C7_Witness ==
    /\ OpenMoveMade /\ last.guess = <<>>
    /\ Before.history # <<>>

\* C8: on a game that is not over, an alphabetic guess longer than one
\* character and different from the target is rejected with 'Guess must be a
\* single character or the word!' and changes no field of the game.
C8_WrongLengthGuessRejected ==
    (OpenMoveMade /\ Len(last.guess) > 1 /\ last.guess # Before.target
        /\ \A i \in 1..Len(last.guess) : last.guess[i] \in UpperLetters \cup LowerLetters) =>
        /\ last.outcome = "raised"
        /\ last.value = BadRequestException(
               "Guess must be a single character or the word!")
        /\ After.history = Before.history
        /\ After.attempts_remaining = Before.attempts_remaining
        /\ After.guessed_letters = Before.guessed_letters
        /\ After.game_over = Before.game_over
        /\ After.won = Before.won

C8_Witness ==
    /\ OpenMoveMade /\ last.guess = <<"B", "A">>
    /\ Before.history # <<>>

\* C9: an accepted make_move appends exactly one entry at the end of history,
\* the pair (guess as submitted, message returned); a rejected one appends
\* nothing.
C9_HistoryRecordsEachAcceptedMove ==
    MoveMade =>
        IF last.outcome = "returned" /\ last.value.type = "GameForm"
        THEN After.history = Append(Before.history, <<last.guess, last.value.message>>)
        ELSE After.history = Before.history

\* a lower-case letter is accepted on a game that already has history
C9_Witness ==
    /\ OpenMoveMade
    /\ last.outcome = "returned"
    /\ last.guess \in { <<c>> : c \in LowerLetters }
    /\ Before.history # <<>>

\* C10: guess comparison is case-insensitive for both guess forms: every
\* upper/lower-case variant of an alphabetic guess gives the same
\* guessed_letters, attempts_remaining, game_over and won.
C10_CaseVariantsAgree ==
    (OpenMoveMade /\ isalpha(last.guess)) =>
        \A g \in Guesses : str_upper(g) = str_upper(last.guess) =>
            LET r == make_move_body(Before, g).game IN
            /\ r.guessed_letters = After.guessed_letters
            /\ r.attempts_remaining = After.attempts_remaining
            /\ r.game_over = After.game_over
            /\ r.won = After.won

\* ---------------------------------------------------------------- two games
\* The same handlers over a datastore with room for two games, with fewer
\* guesses, so that a request on one game has other entities to leave alone.
StoreKeys == {"g1", "g2"}
StoreGuesses == { <<"X">>, <<"A", "B">> }

InitStore ==
    /\ users = {}
    /\ games = [k \in StoreKeys |-> None]
    /\ created = {}
    /\ scores = <<>>
    /\ taskqueue = 0
    /\ memcache = None
    /\ last = Call("none", "", <<>>, None, "returned", None)
    /\ budget = [k \in StoreKeys |-> 0]
    /\ inflight = <<>>

store_make_move == make_move_with(StoreGuesses)

NextStore ==
    \/ create_user
    \/ new_game
    \/ cancel_game
    \/ store_make_move
    \/ cache_average_attempts
    \/ get_average_attempts

SpecStore == InitStore /\ [][NextStore]_vars

\* C11: cancel_game deletes the game only when it is not over; on a game that
\* is over it raises an error and on a missing game it raises NotFound, both
\* changing nothing; a successful cancel removes that game alone and leaves
\* every other game, the users and the scores as they were.
C11_CancelRemovesOnlyAnOpenGame ==
    [][ last'.op = "cancel_game" =>
          LET key == last'.key
              game == games[key]
          IN /\ users' = users
             /\ scores' = scores
             /\ \A k \in (DOMAIN games) \ {key} : games'[k] = games[k]
             /\ IF game = None
                THEN /\ last'.outcome = "raised"
                     /\ last'.value.type = "NotFoundException"
                     /\ games'[key] = None
                ELSE IF game.game_over
                THEN /\ last'.outcome = "raised"
                     /\ last'.value = BadRequestException("Game is already over.")
                     /\ games'[key] = game
                ELSE /\ last'.outcome = "returned"
                     /\ games'[key] = None ]_vars

\* a game is cancelled while another game and a score are stored
C11_Witness ==
    /\ last.op = "cancel_game" /\ last.outcome = "returned"
    /\ games[last.key] = None
    /\ \E k \in DOMAIN games : games[k] # None
    /\ scores # <<>>

\* the Scores stored by end_game(won) calls, and the stored games that are over
ScoresWith(won) == { i \in 1..Len(scores) : scores[i].won = won }
OverGames(won) ==
    { k \in DOMAIN games :
        games[k] # None /\ games[k].game_over /\ games[k].won = won }

\* C12: over any sequence of make_move calls on a game, end_game runs exactly
\* once, in the call that takes the game from not over to over, with won true
\* for a win and false for a loss; never while the game stays in progress, on
\* a rejected call, or after the game is over.
C12_EndGameRunsOncePerGame ==
    /\ \A won \in BOOLEAN : Cardinality(ScoresWith(won)) = Cardinality(OverGames(won))
    /\ MoveMade =>
          IF ~ Before.game_over /\ After.game_over
          THEN scores # <<>> /\ scores[Len(scores)].won = After.won
          ELSE After.game_over = Before.game_over

\* a move is made on a game that is over, after other moves
C12_Witness ==
    /\ MoveMade /\ Before.game_over
    /\ Len(Before.history) >= 2
    /\ last.guess = Before.target

\* ---------------------------------------------------------------- a replayed game
\* A game on PERU with 5 attempts as new_game leaves it, played with the
\* letters P, X, E, R, U in any order.
PERU == <<"P", "E", "R", "U">>
PeruGuesses == { <<"P">>, <<"X">>, <<"E">>, <<"R">>, <<"U">> }

InitPeru ==
    /\ users = {"ann"}
    /\ games = [k \in Keys |-> Game_new_game("ann", 5, PERU)]
    /\ created = Keys
    /\ scores = <<>>
    /\ taskqueue = 1
    /\ memcache = None
    /\ last = Call("new_game", "g1", <<>>, None, "returned",
                   GameForm(Game_new_game("ann", 5, PERU), <<"Have fun playing Hangman!">>))
    /\ budget = [k \in Keys |-> 5]
    /\ inflight = <<>>

peru_make_move == make_move_with(PeruGuesses)

NextPeru == peru_make_move

SpecPeru == InitPeru /\ [][NextPeru]_vars

Script == << <<"P">>, <<"X">>, <<"E">>, <<"R">>, <<"U">> >>

\* the first n guesses of the script, and nothing else, have been played
OnScript(game, n) ==
    /\ Len(game.history) = n
    /\ \A i \in 1..n : game.history[i][1] = Script[i]

\* the message of the latest history entry ends with the given progress
ShowsProgress(game, progress) ==
    LET msg == game.history[Len(game.history)][2]
    IN /\ Len(msg) > Len(progress)
       /\ SubSeq(msg, Len(msg) - Len(progress) + 1, Len(msg)) = progress

\* C13: playing P, X, E, R, U on a new game on PERU with 5 attempts gives
\* P___ with 5 attempts, P___ with 4, PE__ with 4, PER_ with 4, and then a
\* won game whose message contains PERU.
C13_PeruScenario ==
    LET g == games["g1"] IN
    /\ OnScript(g, 1) => /\ ShowsProgress(g, <<"P", "_", "_", "_">>)
                         /\ word_progress(g) = <<"P", "_", "_", "_">>
                         /\ g.attempts_remaining = 5 /\ ~ g.game_over
    /\ OnScript(g, 2) => /\ ShowsProgress(g, <<"P", "_", "_", "_">>)
                         /\ word_progress(g) = <<"P", "_", "_", "_">>
                         /\ g.attempts_remaining = 4 /\ ~ g.game_over
    /\ OnScript(g, 3) => /\ ShowsProgress(g, <<"P", "E", "_", "_">>)
                         /\ word_progress(g) = <<"P", "E", "_", "_">>
                         /\ g.attempts_remaining = 4 /\ ~ g.game_over
    /\ OnScript(g, 4) => /\ ShowsProgress(g, <<"P", "E", "R", "_">>)
                         /\ word_progress(g) = <<"P", "E", "R", "_">>
                         /\ g.attempts_remaining = 4 /\ ~ g.game_over
    /\ OnScript(g, 5) => /\ g.game_over /\ g.won
                         /\ ShowsProgress(g, PERU)
                         /\ last.value.type = "GameForm" =>
                                last.value.message = g.history[5][2]

C13_Witness ==
    /\ OnScript(games["g1"], 5)
    /\ last.op = "make_move" /\ last.guess = <<"U">>

\* the games the recomputation would average over
ActiveGames == { k \in DOMAIN games : games[k] # None /\ ~ games[k].game_over }

\* C14: when the recomputation has run with no game in progress, the cached
\* average is absent and a read returns the empty result, not an average
\* computed from games that were in progress earlier.
C14_NoActiveGamesNoAverage ==
    (last.op = "cache_average_attempts" /\ ActiveGames = {}) =>
        /\ memcache = None
        /\ StringMessage(IF memcache # None THEN memcache ELSE <<>>).message = <<>>

\* ---------------------------------------------------------------- two requests
\* Two make_move requests on the same stored game. Each request reads the
\* game (get_by_urlsafe), works on its own copy, writes the copy back in
\* updateHistory (game.put()) and, when its move ends the game, writes again
\* in end_game. Nothing in make_move runs in a transaction, so the reads and
\* writes of the two requests interleave freely.
Requests == {"r1", "r2"}
ConcGuesses == { <<"X">>, <<"A">>, <<"b">>, <<"A", "B">>, <<"1">> }

Request(pc, guess, local, result) ==
    [pc |-> pc, guess |-> guess, local |-> local, result |-> result]

InitConc ==
    /\ users = {"ann"}
    /\ \E attempts \in AttemptsBudgets, word \in WORDS_LIST :
          /\ games = [k \in Keys |-> Game_new_game("ann", attempts, word)]
          /\ budget = [k \in Keys |-> attempts]
    /\ created = Keys
    /\ scores = <<>>
    /\ taskqueue = 1
    /\ memcache = None
    /\ last = Call("none", "", <<>>, None, "returned", None)
    /\ inflight = [r \in Requests |-> Request("idle", <<>>, None, None)]

\* game = get_by_urlsafe(...) and the work make_move does on its copy up to
\* its first write or, when it writes nothing, up to its response
request_load ==
    \E r \in Requests, guess \in ConcGuesses :
        /\ inflight[r].pc = "idle"
        /\ LET local == get_by_urlsafe("g1")
               result == make_move_body(local, guess)
               accepted == result.outcome = "returned" /\ result.value.type = "GameForm"
           IN inflight' = [inflight EXCEPT ![r] =
                  Request(IF accepted THEN "put" ELSE "done", guess, local, result)]
        /\ UNCHANGED <<users, games, created, scores, taskqueue, memcache, last, budget>>

\* game.put() in updateHistory: the copy replaces the stored entity
request_put ==
    \E r \in Requests :
        /\ inflight[r].pc = "put"
        /\ LET q == inflight[r]
               recorded == [q.result.game EXCEPT !.game_over = q.local.game_over,
                                                 !.won = q.local.won]
           IN /\ games' = [games EXCEPT !["g1"] = recorded]
              /\ inflight' = [inflight EXCEPT ![r].pc =
                     IF q.result.scores # <<>> THEN "end_game" ELSE "done"]
        /\ UNCHANGED <<users, created, scores, taskqueue, memcache, last, budget>>

\* game.end_game(won): the copy, now over, is stored with its Score
request_end_game ==
    \E r \in Requests :
        /\ inflight[r].pc = "end_game"
        /\ games' = [games EXCEPT !["g1"] = inflight[r].result.game]
        /\ scores' = scores \o inflight[r].result.scores
        /\ inflight' = [inflight EXCEPT ![r].pc = "done"]
        /\ UNCHANGED <<users, created, taskqueue, memcache, last, budget>>

NextConc ==
    \/ request_load
    \/ request_put
    \/ request_end_game

SpecConc == InitConc /\ [][NextConc]_vars

\* both requests have been answered, and both were accepted
BothAccepted ==
    \A r \in Requests :
        /\ inflight[r].pc = "done"
        /\ inflight[r].result.outcome = "returned"
        /\ inflight[r].result.value.type = "GameForm"

\* C15: under every interleaving of the loads and stores of two make_move
\* requests on one stored game, two accepted requests leave two more history
\* entries in the stored game, and two accepted misses lower its
\* attempts_remaining by 2.
C15_NoLostUpdate ==
    BothAccepted =>
        /\ Len(games["g1"].history) = 2
        /\ (\A r \in Requests : IsMiss(inflight[r].guess, games["g1"].target)) =>
               games["g1"].attempts_remaining = budget["g1"] - 2

\* ---------------------------------------------------------------- single-letter guesses
\* the 0-based positions of the target that hold the guessed letter
PositionsOf(guess, target) ==
    { i \in 0..(Len(target) - 1) : upper_char(guess[1]) = target[i + 1] }

\* a single alphabetic letter other than the whole target
IsLetterGuess(guess, target) ==
    Len(guess) = 1 /\ guess[1] \in Letters /\ guess # target

\* the masked word for a sequence of guessed positions
Masked(target, guessed_letters) ==
    [ i \in 1..Len(target) |->
        IF \E j \in 1..Len(guessed_letters) : guessed_letters[j] = i - 1
        THEN target[i] ELSE "_" ]

\* C16: on a game that is not over, a single-letter guess whose positions are
\* all recorded already is accepted, records nothing and counts as a turn
\* that revealed nothing: one attempt less and the 'not in the word' message,
\* or 'Game over!' and a lost game when no attempt is left.
C16_RepeatedLetterCountsAsMiss ==
    (OpenMoveMade /\ IsLetterGuess(last.guess, Before.target)
        /\ PositionsOf(last.guess, Before.target) # {}
        /\ PositionsOf(last.guess, Before.target) \subseteq Range(Before.guessed_letters)) =>
        /\ last.outcome = "returned" /\ last.value.type = "GameForm"
        /\ After.guessed_letters = Before.guessed_letters
        /\ After.attempts_remaining = Before.attempts_remaining - 1
        /\ IF After.attempts_remaining = 0
           THEN /\ last.value.message = <<"Game over!">>
                /\ After.game_over /\ ~ After.won
           ELSE /\ last.value.message =
                     <<"Letter was not in the word! Word progress: ">>
                         \o Masked(Before.target, Before.guessed_letters)
                /\ ~ After.game_over

C16_Witness ==
    /\ OpenMoveMade /\ IsLetterGuess(last.guess, Before.target)
    /\ PositionsOf(last.guess, Before.target) # {}
    /\ PositionsOf(last.guess, Before.target) \subseteq Range(Before.guessed_letters)
    /\ ~ After.game_over

\* C17: on a game that is not over, a single-letter guess matching an
\* unrevealed position adds exactly the positions of that letter not yet
\* recorded, all of them in the one turn, leaves attempts_remaining unchanged
\* and, unless the game is thereby won, reports 'letter in word' with the
\* masked progress.
C17_HitRevealsEveryOccurrence ==
    (OpenMoveMade /\ IsLetterGuess(last.guess, Before.target)
        /\ ~ (PositionsOf(last.guess, Before.target) \subseteq Range(Before.guessed_letters))) =>
        /\ last.outcome = "returned" /\ last.value.type = "GameForm"
        /\ Range(After.guessed_letters) =
               Range(Before.guessed_letters) \cup PositionsOf(last.guess, Before.target)
        /\ Len(After.guessed_letters) = Cardinality(Range(After.guessed_letters))
        /\ SubSeq(After.guessed_letters, 1, Len(Before.guessed_letters)) =
               Before.guessed_letters
        /\ After.attempts_remaining = Before.attempts_remaining
        /\ ~ After.game_over =>
               last.value.message =
                   <<"Letter was in the word! Word progress: ">>
                       \o Masked(After.target, After.guessed_letters)

\* a letter that occurs twice is revealed and the game goes on
C17_Witness ==
    /\ OpenMoveMade /\ IsLetterGuess(last.guess, Before.target)
    /\ Cardinality(PositionsOf(last.guess, Before.target)) = 2
    /\ Before.guessed_letters = <<>>
    /\ ~ After.game_over

\* C18: on a game that is not over, a single-letter guess after which every
\* position is guessed wins in that call, with the whole word in the message
\* and attempts_remaining unchanged; such a guess never loses.
C18_LastLetterWins ==
    (OpenMoveMade /\ IsLetterGuess(last.guess, Before.target)
        /\ Range(Before.guessed_letters) \cup PositionsOf(last.guess, Before.target)
              = 0..(Len(Before.target) - 1)) =>
        /\ last.outcome = "returned" /\ last.value.type = "GameForm"
        /\ After.game_over /\ After.won
        /\ last.value.message = <<"You win! Word was ">> \o Before.target
        /\ After.attempts_remaining = Before.attempts_remaining

C18_Witness ==
    /\ OpenMoveMade /\ IsLetterGuess(last.guess, Before.target)
    /\ Range(Before.guessed_letters) \cup PositionsOf(last.guess, Before.target)
          = 0..(Len(Before.target) - 1)
    /\ Before.attempts_remaining = 1

\* C19: while a game is not over it has at least one attempt left and at
\* least one position not guessed; a game that is over and not won has no
\* attempt left.
C19_OpenAndLostGames ==
    \A k \in DOMAIN games : games[k] # None =>
        LET g == games[k] IN
        /\ ~ g.game_over =>
              g.attempts_remaining >= 1 /\ Len(g.guessed_letters) < Len(g.target)
        /\ (g.game_over /\ ~ g.won) => g.attempts_remaining = 0

\* a game is lost after a hit
C19_Witness ==
    \E k \in DOMAIN games :
        /\ games[k] # None /\ games[k].game_over /\ ~ games[k].won
        /\ games[k].guessed_letters # <<>>

\* ---------------------------------------------------------------- termination
\* an accepted make_move: the request is answered with a GameForm
accepted_make_move ==
    /\ make_move
    /\ last'.outcome = "returned" /\ last'.value.type = "GameForm"

\* requests keep arriving and being served: an accepted move that stays
\* possible is eventually made
SpecFair == Spec /\ WF_vars(accepted_make_move)

\* positions still hidden plus attempts left
Measure(game) ==
    (Len(game.target) - Len(game.guessed_letters)) + game.attempts_remaining

\* C20: every accepted make_move that leaves the game in progress lowers
\* (len(target) - len(guessed_letters)) + attempts_remaining, a game with
\* target length L and budget A is over after at most L + A - 1 accepted
\* guesses, and while guesses keep being accepted a game in progress
\* eventually is won or lost (or cancelled).
C20_GamesTerminate ==
    /\ [](\A k \in DOMAIN games : games[k] # None =>
            /\ Len(games[k].history) <= Len(games[k].target) + budget[k] - 1
            /\ Len(games[k].history) = Len(games[k].target) + budget[k] - 1
                   => games[k].game_over)
    /\ [](MoveMade /\ last.outcome = "returned" /\ last.value.type = "GameForm"
             /\ ~ After.game_over
          => Measure(After) < Measure(Before))
    /\ \A k \in Keys :
          (games[k] # None /\ ~ games[k].game_over)
              ~> (games[k] = None \/ games[k].game_over)

\* a game ends with its last possible guess
C20_Witness ==
    \E k \in DOMAIN games :
        /\ games[k] # None /\ games[k].game_over
        /\ budget[k] = MaxAttempts
        /\ Len(games[k].history) = Len(games[k].target) + budget[k] - 1

====
